---- MODULE Spec2Model ----
(***************************************************************************)
(* FIFO shelf-time engine of src/app.py (class InventoryAnalyzer).         *)
(*                                                                         *)
(* Time is counted in ticks, TicksPerDay ticks to the day, so that         *)
(* timestamps have sub-day resolution.  A unit of stock is the dict that   *)
(* _add_stock appends (date, cost, reason); the fields lot, row and key    *)
(* of a unit are history fields that the code does not store: the serial   *)
(* number of the _add_stock call that made the unit, the position in the   *)
(* frame of the row that made it (0 for opening stock) and the (product,   *)
(* location) under which it was enqueued.  A record copies them from its   *)
(* unit, and a record and a warning carry in event the position in the     *)
(* frame of the outbound row that produced them.  The variable returned    *)
(* holds the value the step just taken handed back to its caller, so that  *)
(* the results of the reporting methods can be compared with the ledger    *)
(* they were computed from.                                                *)
(***************************************************************************)
EXTENDS Integers, Sequences, FiniteSets, TLC

\* ------------------------------------------------------------------ bounds
\* rows of the frame plus opening stock items of one run
MaxEvents == 3
\* largest magnitude of a quantity
MaxQty == 3
\* latest timestamp, in ticks
MaxTime == 2
TicksPerDay == 2

\* ------------------------------------------------------------------ inputs
Products == {"A", "B"}
Locations == {"L1", "L2"}
AllKeys == Products \X Locations
\* keys the inputs use: two share only the product, two only the location
Keys == {<<"A", "L1">>, <<"A", "L2">>, <<"B", "L1">>}
Times == 0..MaxTime
Qtys == (-MaxQty)..MaxQty
\* a Cost cell: empty (NaN in the frame) or one number
NaN == <<>>
Costs == {NaN, <<12>>}
Reasons == {"Adj"}
OpeningReason == "Opening Stock"

\* one row of the frame read from the CSV file
Rows ==
  [PrimarySKU : Products, Location : Locations, Qty : Qtys,
   DateTime : Times, Cost : Costs, AdjReason : Reasons]

\* the rows drawn: an inbound row carries a cost, the others leave Cost empty
KeyRows ==
  {r \in Rows : /\ <<r.PrimarySKU, r.Location>> \in Keys
                /\ (r.Cost = NaN) = (r.Qty <= 0)}

\* the rows of the files whose sorting is followed from read_csv on
FrameRows == {r \in KeyRows : r.Qty \in {-1, 1} /\ r.DateTime <= 1}

\* one item of the list handed to add_opening_stock
StockItems ==
  [product : Products, location : Locations, qty : 1..MaxQty,
   date : Times, cost_per_unit : {4}]

KeyItems == {s \in StockItems : <<s.product, s.location>> \in Keys}

RECURSIVE SeqsUpTo(_, _)
SeqsUpTo(S, n) ==
  IF n = 0 THEN {<<>>}
  ELSE LET shorter == SeqsUpTo(S, n - 1)
       IN shorter \cup {Append(q, x) : q \in {p \in shorter : Len(p) = n - 1}, x \in S}

\* ------------------------------------------------------------------ state
VARIABLES
  raw,                 \* the frame as read_csv returns it, in file order
  df,                  \* self.df after prepare_data, as far as it is known
  pos,                 \* number of rows of df the loop has applied
  current_stock,       \* self.current_stock: key -> queue of units
  shelf_time_records,  \* self.shelf_time_records
  warnings,            \* the shortfall warnings printed so far
  opening,             \* the stock items add_opening_stock has applied
  lots,                \* number of _add_stock calls so far
  pc,                  \* "loaded", "constructed", "processing", "done"
  returned             \* what the step just taken returned to its caller

vars ==
  <<raw, df, pos, current_stock, shelf_time_records, warnings, opening, lots, pc,
    returned>>

\* the program state proper: what a query must leave as it found it
state ==
  <<raw, df, pos, current_stock, shelf_time_records, warnings, opening, lots, pc>>

\* ------------------------------------------------------------------ helpers
\* a step that returns nothing to its caller
Nothing == [call |-> "none"]

abs(x) == IF x < 0 THEN -x ELSE x

\* a negative duration clamped to zero days
TimedeltaDaysClamped(a, b) == IF a < b THEN 0 ELSE (a - b) \div TicksPerDay

\* the days of the duration rounded toward zero, as int(seconds / 86400)
TimedeltaDaysTruncated(a, b) ==
  IF a < b THEN -((b - a) \div TicksPerDay) ELSE (a - b) \div TicksPerDay

\* (a - b).days of a pandas Timedelta: the floor of the difference in days
TimedeltaDays(a, b) == (a - b) \div TicksPerDay

\* cost = abs(row['Cost']) if pd.notna(row['Cost']) else 0
RowCost(row) == IF row.Cost # NaN THEN abs(row.Cost[1]) ELSE 0

\* the whole cost of the call on every unit
UnitCostOfCall(cost, qty) == cost

\* unit_cost = cost / qty if qty > 0 else 0 (the costs drawn divide evenly)
UnitCost(cost, qty) == IF qty > 0 THEN cost \div qty ELSE 0

\* a loop that brings in nothing when the call carries no cost
NewUnitsIfCosted(date, qty, cost, reason, lot, row, key) ==
  [i \in 1..(IF qty > 0 /\ cost > 0 THEN qty ELSE 0) |->
     [date |-> date, cost |-> cost \div qty, reason |-> reason,
      lot |-> lot, row |-> row, key |-> key]]

\* a loop that stops one unit short: range(1, qty)
NewUnitsOneShort(date, qty, cost, reason, lot, row, key) ==
  [i \in 1..(IF qty > 1 THEN qty - 1 ELSE 0) |->
     [date |-> date, cost |-> UnitCost(cost, qty), reason |-> reason,
      lot |-> lot, row |-> row, key |-> key]]

\* the units one _add_stock call appends: range(qty) copies of the same dict
NewUnits(date, qty, cost, reason, lot, row, key) ==
  [i \in 1..(IF qty > 0 THEN qty ELSE 0) |->
     [date |-> date, cost |-> UnitCost(cost, qty), reason |-> reason,
      lot |-> lot, row |-> row, key |-> key]]

\* deque.appendleft in place of append
EnqueueLeft(queue, units) == units \o queue

\* deque.append of every new unit
Enqueue(queue, units) == queue \o units

\* a ledger keyed by the product alone: one queue for all its locations
StockKeyOfProduct(product, location) == <<product, "L1">>

\* the queue of a row: self.current_stock[product][location]
StockKey(product, location) == <<product, location>>

\* a ledger that nets an inbound quantity against the deficit of the
\* oversold row right before it
AddStockNetOfDeficit(stock, product, location, date, qty, cost, reason, lot, row) ==
  LET w == IF warnings = <<>> THEN [event |-> -1] ELSE warnings[Len(warnings)]
      d == IF w.event = row - 1 /\ w.event > 0 /\ w.product = product
              /\ w.location = location
           THEN w.requested - w.matched ELSE 0
      n == IF qty > d THEN qty - d ELSE 0
  IN [stock EXCEPT ![StockKey(product, location)] =
        Enqueue(@, NewUnits(date, n, cost, reason, lot, row, <<product, location>>))]

\* _add_stock on a ledger: the ledger afterwards
AddStock(stock, product, location, date, qty, cost, reason, lot, row) ==
  [stock EXCEPT ![StockKey(product, location)] =
     Enqueue(@, NewUnits(date, qty, cost, reason, lot, row, <<product, location>>))]

\* a record whose sale_reason is copied from the unit, not from the sale
ShelfRecordOfUnitReason(product, location, date, reason, oldest_stock, event) ==
  [product |-> product, location |-> location,
   purchase_date |-> oldest_stock.date, sale_date |-> date,
   shelf_time_days |-> (date - oldest_stock.date) \div TicksPerDay,
   unit_cost |-> oldest_stock.cost, purchase_reason |-> oldest_stock.reason,
   sale_reason |-> oldest_stock.reason,
   lot |-> oldest_stock.lot, row |-> oldest_stock.row, key |-> oldest_stock.key,
   event |-> event]

\* the record the loop appends for one popped unit
ShelfRecord(product, location, date, reason, oldest_stock, event) ==
  [product |-> product, location |-> location,
   purchase_date |-> oldest_stock.date, sale_date |-> date,
   shelf_time_days |-> TimedeltaDays(date, oldest_stock.date),
   unit_cost |-> oldest_stock.cost, purchase_reason |-> oldest_stock.reason,
   sale_reason |-> reason,
   lot |-> oldest_stock.lot, row |-> oldest_stock.row, key |-> oldest_stock.key,
   event |-> event]

\* deque.pop() in place of popleft(): the newest unit is taken
PopRight(queue) ==
  [item |-> queue[Len(queue)], rest |-> SubSeq(queue, 1, Len(queue) - 1)]

\* a removal that takes the unit behind the head when there is one
PopSecond(queue) ==
  IF Len(queue) < 2 THEN [item |-> Head(queue), rest |-> Tail(queue)]
  ELSE [item |-> queue[2], rest |-> <<queue[1]>> \o SubSeq(queue, 3, Len(queue))]

\* deque.popleft(): the unit taken and the queue left
PopLeft(queue) == [item |-> Head(queue), rest |-> Tail(queue)]

\* the warning printed also when the request was met exactly
ShortfallOrExact(removed_qty, qty) == removed_qty <= qty

\* if removed_qty < qty: the warning is printed
Shortfall(removed_qty, qty) == removed_qty < qty

RECURSIVE WhileLoop(_, _, _, _, _, _, _, _, _)
\* the while loop of _remove_stock: the queue, the records and removed_qty
\* when it ends
WhileLoop(queue, records, removed_qty, qty, product, location, date, reason, event) ==
  IF removed_qty < qty /\ queue # <<>>
  THEN LET p == PopLeft(queue)
       IN WhileLoop(p.rest,
                    Append(records,
                           ShelfRecord(product, location, date, reason, p.item, event)),
                    removed_qty + 1, qty, product, location, date, reason, event)
  ELSE [queue |-> queue, records |-> records, removed_qty |-> removed_qty]

\* a frame that was never sorted
InAnyOrder(frame, row) == TRUE

\* a frame sorted with ascending=False
InDescendingOrder(frame, row) ==
  IF frame = <<>> THEN TRUE ELSE frame[Len(frame)].DateTime >= row.DateTime

\* the rows of the frame are in non-decreasing DateTime order (sort_values)
InOrder(frame, row) ==
  IF frame = <<>> THEN TRUE ELSE frame[Len(frame)].DateTime <= row.DateTime

\* the frame is in non-decreasing DateTime order
IsSorted(frame) ==
  \A i \in 1..Len(frame) : \A j \in 1..Len(frame) :
    i < j => frame[i].DateTime <= frame[j].DateTime

\* sort_values('DateTime') with the default kind, quicksort, which is not a
\* stable sort: every ordering of the rows by DateTime is a possible result
SortValues(frame) ==
  LET n == Len(frame)
      perms == {p \in [1..n -> 1..n] : \A i \in 1..n : \E j \in 1..n : p[j] = i}
  IN {s \in {[i \in 1..n |-> frame[p[i]]] : p \in perms} : IsSorted(s)}

\* ------------------------------------------------------------------ actions
Init ==
  /\ raw = <<>>
  /\ df = <<>>
  /\ pos = 0
  /\ current_stock = [k \in AllKeys |-> <<>>]
  /\ shelf_time_records = <<>>
  /\ warnings = <<>>
  /\ opening = <<>>
  /\ lots = 0
  /\ pc = "constructed"
  /\ returned = Nothing

\* a removal that refuses a request the queue cannot meet in full: nothing
\* is popped and the warning reports no unit removed
RemoveStockAllOrNothing(product, location, date, qty, reason, event) ==
  LET queue == current_stock[StockKey(product, location)]
      end == WhileLoop(queue, shelf_time_records, 0,
                       IF Len(queue) < qty THEN 0 ELSE qty,
                       product, location, date, reason, event)
  IN /\ current_stock' = [current_stock EXCEPT ![StockKey(product, location)] = end.queue]
     /\ shelf_time_records' = end.records
     /\ warnings' =
          IF Shortfall(end.removed_qty, qty)
          THEN Append(warnings, [product |-> product, location |-> location,
                                 requested |-> qty, matched |-> end.removed_qty,
                                 event |-> event])
          ELSE warnings

\* _remove_stock: the ledger, the records and the warnings afterwards
RemoveStock(product, location, date, qty, reason, event) ==
  LET end == WhileLoop(current_stock[StockKey(product, location)],
                       shelf_time_records, 0, qty, product, location, date, reason,
                       event)
  IN /\ current_stock' = [current_stock EXCEPT ![StockKey(product, location)] = end.queue]
     /\ shelf_time_records' = end.records
     /\ warnings' =
          IF Shortfall(end.removed_qty, qty)
          THEN Append(warnings, [product |-> product, location |-> location,
                                 requested |-> qty, matched |-> end.removed_qty,
                                 event |-> event])
          ELSE warnings

\* a loop that has no elif: every row that is not inbound is handed to
\* _remove_stock with a quantity of at least one
ProcessRowNoZeroCase(row) ==
  /\ pc \in {"constructed", "processing"}
  /\ pos' = pos + 1
  /\ pc' = "processing"
  /\ IF row.Qty > 0
     THEN /\ current_stock' =
               AddStock(current_stock, row.PrimarySKU, row.Location, row.DateTime,
                        row.Qty, RowCost(row), row.AdjReason, lots + 1, pos + 1)
          /\ lots' = lots + 1
          /\ UNCHANGED <<shelf_time_records, warnings>>
     ELSE /\ RemoveStock(row.PrimarySKU, row.Location, row.DateTime,
                         IF row.Qty = 0 THEN 1 ELSE abs(row.Qty), row.AdjReason,
                         pos + 1)
          /\ UNCHANGED lots
  /\ UNCHANGED <<raw, opening>>
  /\ returned' = Nothing

\* one iteration of the loop of process_inventory_movements
ProcessRow(row) ==
  /\ pc \in {"constructed", "processing"}
  /\ pos' = pos + 1
  /\ pc' = "processing"
  /\ IF row.Qty > 0
     THEN /\ current_stock' =
               AddStock(current_stock, row.PrimarySKU, row.Location, row.DateTime,
                        row.Qty, RowCost(row), row.AdjReason, lots + 1, pos + 1)
          /\ lots' = lots + 1
          /\ UNCHANGED <<shelf_time_records, warnings>>
     ELSE IF row.Qty < 0
     THEN /\ RemoveStock(row.PrimarySKU, row.Location, row.DateTime,
                         abs(row.Qty), row.AdjReason, pos + 1)
          /\ UNCHANGED lots
     ELSE UNCHANGED <<current_stock, shelf_time_records, warnings, lots>>
  /\ UNCHANGED <<raw, opening>>
  /\ returned' = Nothing

\* the loop reaches the next row of a frame whose rows are drawn as it goes
RevealRow ==
  \E row \in KeyRows :
    /\ pos = Len(df)
    /\ Len(opening) + Len(df) < MaxEvents
    /\ InOrder(df, row)
    /\ df' = Append(df, row)
    /\ ProcessRow(row)

\* the loop of process_inventory_movements ends: no row is left
Finish ==
  /\ pc \in {"constructed", "processing"}
  /\ pos = Len(df)
  /\ pc' = "done"
  /\ returned' = Nothing
  /\ UNCHANGED <<raw, df, pos, current_stock, shelf_time_records, warnings, opening, lots>>

RECURSIVE SeedAll(_, _, _)
\* the loop of add_opening_stock over its items, first to last
SeedAll(stock, items, lot) ==
  IF items = <<>> THEN stock
  ELSE LET s == Head(items)
       IN SeedAll(AddStock(stock, s.product, s.location, s.date, s.qty,
                           s.cost_per_unit * s.qty, OpeningReason, lot + 1, 0),
                  Tail(items), lot + 1)

\* add_opening_stock, called before the transactions are processed
AddOpeningStock ==
  /\ pc = "constructed"
  /\ \E n \in 1..(MaxEvents - Len(opening)) : \E items \in [1..n -> KeyItems] :
    /\ current_stock' = SeedAll(current_stock, items, lots)
    /\ lots' = lots + Len(items)
    /\ opening' = opening \o items
    /\ returned' = Nothing
    /\ UNCHANGED <<raw, df, pos, shelf_time_records, warnings, pc>>

Next == RevealRow \/ Finish \/ AddOpeningStock

Spec == Init /\ [][Next]_vars

\* ---------------------------------------------- the frame from read_csv on
\* after pd.read_csv, before prepare_data
InitFrame ==
  /\ raw \in SeqsUpTo(FrameRows, MaxEvents)
  /\ df = <<>>
  /\ pos = 0
  /\ current_stock = [k \in AllKeys |-> <<>>]
  /\ shelf_time_records = <<>>
  /\ warnings = <<>>
  /\ opening = <<>>
  /\ lots = 0
  /\ pc = "loaded"
  /\ returned = Nothing

\* prepare_data, and the rest of __init__
PrepareData ==
  /\ pc = "loaded"
  /\ df' \in SortValues(raw)
  /\ pc' = "constructed"
  /\ returned' = Nothing
  /\ UNCHANGED <<raw, pos, current_stock, shelf_time_records, warnings, opening, lots>>

\* a loop that gives up on the first shortfall
IterRowUntilShortfall ==
  /\ warnings = <<>>
  /\ pos < Len(df)
  /\ UNCHANGED df
  /\ ProcessRow(df[pos + 1])

\* the loop of process_inventory_movements takes the next row of the frame
IterRow ==
  /\ pos < Len(df)
  /\ UNCHANGED df
  /\ ProcessRow(df[pos + 1])

NextFrame == PrepareData \/ IterRow \/ Finish

SpecFrame == InitFrame /\ [][NextFrame]_vars

\* main runs one thread from prepare_data to the end of the loop: a step that
\* can be taken is taken
SpecFrameFair == SpecFrame /\ WF_vars(NextFrame)

\* ------------------------------------------------- the reporting methods
\* the rows drawn while reports are taken
QueryRows == {r \in KeyRows : r.Qty \in {-1, 1}}

\* the limits of the aging categories, in days
FreshDays == 7
MediumDays == 30
AgedDays == 90

\* the instants datetime.now() may return: one before the latest timestamp
\* of the frame, and one just past each limit for every timestamp
Nows == {1} \cup {(d + 1) * TicksPerDay + 1 : d \in {FreshDays, MediumDays, AgedDays}}

\* the keys the ledger was indexed with, in the order of the calls
Touched ==
  LET rows == SelectSeq(SubSeq(df, 1, pos), LAMBDA r : r.Qty # 0)
  IN [i \in 1..Len(opening) |-> StockKey(opening[i].product, opening[i].location)] \o
     [i \in 1..Len(rows) |-> StockKey(rows[i].PrimarySKU, rows[i].Location)]

RECURSIVE FirstOccurrences(_, _)
\* the elements of seq that are not in seen, each at its first occurrence
FirstOccurrences(seq, seen) ==
  IF seq = <<>> THEN <<>>
  ELSE IF Head(seq) \in seen THEN FirstOccurrences(Tail(seq), seen)
       ELSE <<Head(seq)>> \o FirstOccurrences(Tail(seq), seen \cup {Head(seq)})

RECURSIVE Flatten(_)
Flatten(seqs) == IF seqs = <<>> THEN <<>> ELSE Head(seqs) \o Flatten(Tail(seqs))

\* for product in self.current_stock: for location in
\* self.current_stock[product]: the keys of the nested dict, each level in
\* insertion order
StockKeys ==
  LET keys == FirstOccurrences(Touched, {})
      products == FirstOccurrences([i \in 1..Len(keys) |-> keys[i][1]], {})
  IN Flatten([i \in 1..Len(products) |->
                SelectSeq(keys, LAMBDA k : k[1] = products[i])])

\* the item_info of the unit at place index of the queue of key; lot and
\* index are history fields
ItemInfo(key, index, stock_item, current_date) ==
  [product |-> key[1], location |-> key[2],
   days_on_shelf |-> TimedeltaDays(current_date, stock_item.date),
   cost |-> stock_item.cost, purchase_date |-> stock_item.date,
   lot |-> stock_item.lot, index |-> index]

\* every unit in stock, key by key and head to tail
ItemInfos(stock, current_date) ==
  LET keys == StockKeys
  IN Flatten([n \in 1..Len(keys) |->
                [i \in 1..Len(stock[keys[n]]) |->
                   ItemInfo(keys[n], i, stock[keys[n]][i], current_date)]])

Fresh == "Fresh (0-7 days)"
Medium == "Medium (8-30 days)"
Aged == "Aged (31-90 days)"
VeryAged == "Very Aged (90+ days)"
Categories == {Fresh, Medium, Aged, VeryAged}

\* a chain that asks for a non-negative age before the first category
CategoryFromZero(days_on_shelf) ==
  IF days_on_shelf < 0 THEN "none"
  ELSE IF days_on_shelf <= FreshDays THEN Fresh
  ELSE IF days_on_shelf <= MediumDays THEN Medium
  ELSE IF days_on_shelf <= AgedDays THEN Aged
  ELSE VeryAged

\* a chain whose limits are exclusive
CategoryBelowLimit(days_on_shelf) ==
  IF days_on_shelf < FreshDays THEN Fresh
  ELSE IF days_on_shelf < MediumDays THEN Medium
  ELSE IF days_on_shelf < AgedDays THEN Aged
  ELSE VeryAged

\* the if / elif chain of get_aging_summary_by_categories
Category(days_on_shelf) ==
  IF days_on_shelf <= FreshDays THEN Fresh
  ELSE IF days_on_shelf <= MediumDays THEN Medium
  ELSE IF days_on_shelf <= AgedDays THEN Aged
  ELSE VeryAged

\* the dict get_aging_summary_by_categories returns
AgingCategories(stock, current_date) ==
  LET infos == ItemInfos(stock, current_date)
  IN [c \in Categories |->
        SelectSeq(infos, LAMBDA info : Category(info.days_on_shelf) = c)]

\* get_aging_summary_by_categories()
GetAgingSummaryByCategories ==
  \E now \in Nows :
    /\ pc \in {"constructed", "processing", "done"}
    /\ returned' = [call |-> "get_aging_summary_by_categories", now |-> now,
                    value |-> AgingCategories(current_stock, now)]
    /\ UNCHANGED state

RECURSIVE Sum(_)
\* sum(...) over a sequence of numbers
Sum(xs) == IF xs = <<>> THEN 0 ELSE Head(xs) + Sum(Tail(xs))

\* min(...) over a non-empty sequence of numbers
Min(xs) == CHOOSE x \in {xs[i] : i \in 1..Len(xs)} : \A i \in 1..Len(xs) : x <= xs[i]

\* a maximum that was copied from the minimum and not changed
MaxAsMin(xs) == CHOOSE x \in {xs[i] : i \in 1..Len(xs)} : \A i \in 1..Len(xs) : x <= xs[i]

\* max(...) over a non-empty sequence of numbers
Max(xs) == CHOOSE x \in {xs[i] : i \in 1..Len(xs)} : \A i \in 1..Len(xs) : x >= xs[i]

\* a quotient of two integers that float division computes, kept exact
Ratio(num, den) == [num |-> num, den |-> den]

\* the column of a list of dicts
Column(dicts, field) == [i \in 1..Len(dicts) |-> dicts[i][field]]

\* the row get_current_stock_summary appends for a key with stock
SummaryRow(key, stock_queue, now) ==
  LET qty == Len(stock_queue)
      oldest_date == Min(Column(stock_queue, "date"))
      newest_date == Max(Column(stock_queue, "date"))
      total_cost == Sum(Column(stock_queue, "cost"))
  IN [product |-> key[1], location |-> key[2], current_qty |-> qty,
      oldest_stock_date |-> oldest_date, newest_stock_date |-> newest_date,
      days_on_shelf_oldest |-> TimedeltaDays(now, oldest_date),
      total_cost |-> total_cost,
      avg_cost_per_unit |-> IF qty > 0 THEN Ratio(total_cost, qty) ELSE Ratio(0, 1)]

\* the rows of the frame get_current_stock_summary returns: one for each
\* key of the dict whose queue is not empty
CurrentStockSummary(stock, now) ==
  LET keys == SelectSeq(StockKeys, LAMBDA k : stock[k] # <<>>)
  IN [n \in 1..Len(keys) |-> SummaryRow(keys[n], stock[keys[n]], now)]

\* get_current_stock_summary()
GetCurrentStockSummary ==
  \E now \in Nows :
    /\ pc \in {"constructed", "processing", "done"}
    /\ returned' = [call |-> "get_current_stock_summary", now |-> now,
                    value |-> CurrentStockSummary(current_stock, now)]
    /\ UNCHANGED state

\* the rows of the frame get_detailed_shelf_aging_report returns: one for
\* each unit in stock
ShelfAgingReport(stock, current_date) ==
  LET keys == StockKeys
  IN Flatten([n \in 1..Len(keys) |->
                [i \in 1..Len(stock[keys[n]]) |->
                   [product |-> keys[n][1], location |-> keys[n][2],
                    unit_number |-> i,
                    purchase_date |-> stock[keys[n]][i].date,
                    days_on_shelf |-> TimedeltaDays(current_date, stock[keys[n]][i].date),
                    unit_cost |-> stock[keys[n]][i].cost,
                    purchase_reason |-> stock[keys[n]][i].reason]]])

\* a report that takes each unit off its queue as it lists it
GetDetailedShelfAgingReportPopping ==
  \E now \in Nows :
    /\ pc \in {"constructed", "processing", "done"}
    /\ returned' = [call |-> "get_detailed_shelf_aging_report", now |-> now,
                    value |-> ShelfAgingReport(current_stock, now)]
    /\ current_stock' = [k \in AllKeys |-> <<>>]
    /\ UNCHANGED <<raw, df, pos, shelf_time_records, warnings, opening, lots, pc>>

\* get_detailed_shelf_aging_report()
GetDetailedShelfAgingReport ==
  \E now \in Nows :
    /\ pc \in {"constructed", "processing", "done"}
    /\ returned' = [call |-> "get_detailed_shelf_aging_report", now |-> now,
                    value |-> ShelfAgingReport(current_stock, now)]
    /\ UNCHANGED state

\* pd.DataFrame() and pd.Series(dtype=float): no row, no entry
EmptyFrame == <<>>
EmptySeries == <<>>

\* no structure at all: None
AnalyticsAbsent == [absent |-> TRUE]

\* what generate_analytics returns when there is no record
AnalyticsEmpty ==
  [analytics |->
     [overall |-> [total_units_sold |-> 0, average_shelf_time_days |-> 0,
                   median_shelf_time_days |-> 0, min_shelf_time_days |-> 0,
                   max_shelf_time_days |-> 0, std_shelf_time_days |-> 0],
      by_product |-> EmptyFrame, by_location |-> EmptyFrame,
      fast_moving_products |-> EmptySeries, slow_moving_products |-> EmptySeries,
      monthly_trends |-> EmptyFrame],
   shelf_df |-> EmptyFrame]

\* Series.mean()
Mean(xs) == Ratio(Sum(xs), Len(xs))

\* Series.median(): the middle value, or the mean of the two middle values
Median(xs) ==
  LET sorted == SortSeq(xs, LAMBDA a, b : a < b)
      n == Len(xs)
  IN IF n % 2 = 1 THEN Ratio(sorted[(n + 1) \div 2], 1)
     ELSE Ratio(sorted[n \div 2] + sorted[n \div 2 + 1], 2)

\* Series.std(): the square root of the sample variance (N - 1 in the
\* denominator), NaN for a single value; the root is left unevaluated
Std(xs) ==
  LET n == Len(xs)
  IN IF n = 1 THEN NaN
     ELSE [sqrt |-> Ratio(n * Sum([i \in 1..n |-> xs[i] * xs[i]]) - Sum(xs) * Sum(xs),
                          n * (n - 1))]

\* .round(2) of a quotient: the nearest hundredth, halves to the even one
Round2(x) ==
  LET twice == 200 * x.num + x.den
      q == twice \div (2 * x.den)
  IN [hundredths |-> IF twice % (2 * x.den) = 0 /\ q % 2 = 1 THEN q - 1 ELSE q]

\* .round(2) of a standard deviation; the rounding is left unevaluated
Round2Std(x) == IF x = NaN THEN NaN ELSE [round2 |-> x]

\* one row of .agg({'shelf_time_days': ['count', 'mean', 'median', 'min',
\* 'max', 'std'], 'unit_cost': 'mean'}).round(2)
AggRow(records) ==
  LET days == Column(records, "shelf_time_days")
  IN [count |-> Len(days), mean |-> Round2(Mean(days)),
      median |-> Round2(Median(days)), min |-> Min(days), max |-> Max(days),
      std |-> Round2Std(Std(days)),
      unit_cost_mean |-> Round2(Mean(Column(records, "unit_cost")))]

\* the names drawn, in the order groupby sorts them
SortedProducts == <<"A", "B">>
SortedLocations == <<"L1", "L2">>

\* groupby(field): the values of the field that occur, sorted
Groups(records, field, sorted) ==
  SelectSeq(sorted, LAMBDA v : \E i \in 1..Len(records) : records[i][field] = v)

\* groupby(field).agg(...).round(2)
GroupByAgg(records, field, sorted) ==
  LET groups == Groups(records, field, sorted)
  IN [g \in 1..Len(groups) |->
        [group |-> groups[g],
         agg |-> AggRow(SelectSeq(records, LAMBDA rec : rec[field] = groups[g]))]]

\* groupby('product')['shelf_time_days'].mean()
ProductAvgShelfTime(records) ==
  LET groups == Groups(records, "product", SortedProducts)
  IN [g \in 1..Len(groups) |->
        [product |-> groups[g],
         mean |-> Mean(Column(SelectSeq(records, LAMBDA rec : rec.product = groups[g]),
                              "shelf_time_days"))]]

\* one quotient is at most another (the denominators are positive)
RatioLeq(x, y) == x.num * y.den <= y.num * x.den

\* Series.sort_values(): the orders an unstable sort by value may return
SortedByMean(series) ==
  LET n == Len(series)
      perms == {p \in [1..n -> 1..n] : \A i, j \in 1..n : i # j => p[i] # p[j]}
  IN {s \in {[i \in 1..n |-> series[p[i]]] : p \in perms} :
        \A i, j \in 1..n : i < j => RatioLeq(s[i].mean, s[j].mean)}

\* the length of the lists of fast and slow movers
MoverCount == 10

\* Series.head(n) and Series.tail(n)
SeriesHead(series, n) == SubSeq(series, 1, IF Len(series) < n THEN Len(series) ELSE n)
SeriesTail(series, n) ==
  SubSeq(series, IF Len(series) < n THEN 1 ELSE Len(series) - n + 1, Len(series))

\* the timestamps are counted from the first instant of a month of 31 days
DaysPerMonth == 31

\* dt.to_period('M')
ToPeriodM(date) == date \div (DaysPerMonth * TicksPerDay)

\* shelf_df with the sale_month column
WithSaleMonth(records) ==
  [i \in 1..Len(records) |->
     [sale_month |-> ToPeriodM(records[i].sale_date)] @@ records[i]]

\* groupby('sale_month').agg({'shelf_time_days': ['count', 'mean'],
\* 'unit_cost': 'sum'}).round(2)
MonthlyTrends(shelf_df) ==
  LET months == SortSeq(FirstOccurrences(Column(shelf_df, "sale_month"), {}),
                        LAMBDA a, b : a < b)
  IN [m \in 1..Len(months) |->
        LET rows == SelectSeq(shelf_df, LAMBDA rec : rec.sale_month = months[m])
        IN [sale_month |-> months[m], count |-> Len(rows),
            mean |-> Round2(Mean(Column(rows, "shelf_time_days"))),
            unit_cost_sum |-> Sum(Column(rows, "unit_cost"))]]

\* what generate_analytics returns when there are records; ranking is
\* product_avg_shelf_time as sort_values returned it
Analytics(records, ranking) ==
  LET days == Column(records, "shelf_time_days")
      shelf_df == WithSaleMonth(records)
  IN [analytics |->
        [overall |-> [total_units_sold |-> Len(records),
                      average_shelf_time_days |-> Mean(days),
                      median_shelf_time_days |-> Median(days),
                      min_shelf_time_days |-> Min(days),
                      max_shelf_time_days |-> Max(days),
                      std_shelf_time_days |-> Std(days)],
         by_product |-> GroupByAgg(records, "product", SortedProducts),
         by_location |-> GroupByAgg(records, "location", SortedLocations),
         fast_moving_products |-> SeriesHead(ranking, MoverCount),
         slow_moving_products |-> SeriesTail(ranking, MoverCount),
         monthly_trends |-> MonthlyTrends(shelf_df)],
      shelf_df |-> shelf_df]

\* generate_analytics()
GenerateAnalytics ==
  /\ pc \in {"constructed", "processing", "done"}
  /\ IF shelf_time_records = <<>>
     THEN returned' = [call |-> "generate_analytics", value |-> AnalyticsEmpty]
     ELSE \E ranking \in SortedByMean(ProductAvgShelfTime(shelf_time_records)) :
            returned' = [call |-> "generate_analytics",
                         value |-> Analytics(shelf_time_records, ranking)]
  /\ UNCHANGED state

\* the loop reaches the next row of a frame whose rows are drawn as it goes
RevealQueryRow ==
  \E row \in QueryRows :
    /\ pos = Len(df)
    /\ Len(opening) + Len(df) < MaxEvents
    /\ InOrder(df, row)
    /\ df' = Append(df, row)
    /\ ProcessRow(row)

NextQuery ==
  \/ RevealQueryRow
  \/ Finish
  \/ GetAgingSummaryByCategories
  \/ GetCurrentStockSummary
  \/ GetDetailedShelfAgingReport
  \/ GenerateAnalytics

SpecQuery == Init /\ [][NextQuery]_vars

\* ------------------------------------------------------------------ claims
Key(row) == <<row.PrimarySKU, row.Location>>
ItemKey(item) == <<item.product, item.location>>
RecKey(rec) == <<rec.product, rec.location>>

RECURSIVE SumQty(_, _, _)
\* the inbound quantity of the first n rows of frame that are for key k
SumQty(frame, n, k) ==
  IF n = 0 THEN 0
  ELSE SumQty(frame, n - 1, k) +
       (IF Key(frame[n]) = k /\ frame[n].Qty > 0 THEN frame[n].Qty ELSE 0)

RECURSIVE SumItems(_, _, _)
\* the quantity of the first n opening items that are for key k
SumItems(items, n, k) ==
  IF n = 0 THEN 0
  ELSE SumItems(items, n - 1, k) + (IF ItemKey(items[n]) = k THEN items[n].qty ELSE 0)

InboundSoFar(k) == SumItems(opening, Len(opening), k) + SumQty(df, pos, k)
MatchedSoFar(k) ==
  Cardinality({i \in 1..Len(shelf_time_records) : RecKey(shelf_time_records[i]) = k})

\* C1: after every prefix of the events, each key's queue holds as many units
\* as were brought in for the key so far minus those matched for it so far.
C1_Conservation ==
  \A k \in AllKeys : Len(current_stock[k]) = InboundSoFar(k) - MatchedSoFar(k)

\* a key with units brought in, some matched and some still in the queue
C1_Witness ==
  \E k \in AllKeys : MatchedSoFar(k) > 0 /\ Len(current_stock[k]) > 0

\* C2: per key, units are matched in the order their lots were enqueued: the
\* records follow the lots' order, and no record is of a lot younger than a
\* unit still in the queue.
C2_FifoOrder ==
  /\ \A i \in 1..Len(shelf_time_records) : \A j \in 1..Len(shelf_time_records) :
       (i < j /\ shelf_time_records[i].key = shelf_time_records[j].key)
         => shelf_time_records[i].lot <= shelf_time_records[j].lot
  /\ \A i \in 1..Len(shelf_time_records) :
       LET rec == shelf_time_records[i]
       IN \A u \in 1..Len(current_stock[rec.key]) :
            rec.lot <= current_stock[rec.key][u].lot

\* units of two lots of one key matched while a unit of the second remains
C2_Witness ==
  \E i \in 1..Len(shelf_time_records) : \E j \in 1..Len(shelf_time_records) :
    /\ shelf_time_records[i].key = shelf_time_records[j].key
    /\ shelf_time_records[i].lot < shelf_time_records[j].lot
    /\ current_stock[shelf_time_records[j].key] # <<>>

\* C3: an outbound row of magnitude q on a key holding a units prints a
\* warning exactly when q > a; the warning reports q and a, the key's queue
\* is then empty, and on an empty queue nothing is matched.
C3_Step ==
  (pos' = pos + 1 /\ df'[pos'].Qty < 0) =>
    LET row == df'[pos']
        q == -row.Qty
        a == Len(current_stock[Key(row)])
    IN /\ (q > a) <=> (Len(warnings') = Len(warnings) + 1)
       /\ (q <= a) => warnings' = warnings
       /\ (q > a) =>
            /\ SubSeq(warnings', 1, Len(warnings)) = warnings
            /\ warnings'[Len(warnings')].product = row.PrimarySKU
            /\ warnings'[Len(warnings')].location = row.Location
            /\ warnings'[Len(warnings')].requested = q
            /\ warnings'[Len(warnings')].matched = a
            /\ current_stock'[Key(row)] = <<>>
       /\ (a = 0) => shelf_time_records' = shelf_time_records

C3_Shortfall == [][C3_Step]_vars

\* a shortfall on an empty queue and a shortfall on a queue that held units
C3_Witness ==
  /\ \E i \in 1..Len(warnings) : warnings[i].matched = 0
  /\ \E i \in 1..Len(warnings) : warnings[i].matched > 0

Records == {shelf_time_records[i] : i \in 1..Len(shelf_time_records)}
RecordsOfEvent(n) == {i \in 1..Len(shelf_time_records) : shelf_time_records[i].event = n}
Oversold(n) == \E i \in 1..Len(warnings) : warnings[i].event = n

\* row j is the first row after row i that changes the stock of row i's key
NextOnKey(i, j) ==
  /\ i < j
  /\ Key(df[i]) = Key(df[j])
  /\ df[j].Qty # 0
  /\ \A m \in (i + 1)..(j - 1) : Key(df[m]) = Key(df[i]) => df[m].Qty = 0

\* C4: the deficit of an oversold outbound row is dropped: the next inbound
\* row of quantity n on the key leaves exactly n units in its queue, and no
\* record pairs a lot with an outbound row applied before the lot came in.
C4_DeficitDropped ==
  /\ \A i \in 1..pos :
       (Oversold(i) /\ NextOnKey(i, pos) /\ df[pos].Qty > 0)
         => Len(current_stock[Key(df[pos])]) = df[pos].Qty
  /\ \A rec \in Records : rec.row < rec.event

\* an inbound row has just been applied to a key that was oversold before
C4_Witness ==
  \E i \in 1..pos :
    /\ Oversold(i) /\ NextOnKey(i, pos) /\ df[pos].Qty > 1
    /\ \E w \in 1..Len(warnings) : warnings[w].event = i /\ warnings[w].matched > 0

\* C5: a step that applies a row, or opening stock, for some keys leaves the
\* queue of every other key unchanged, and every record of the step carries
\* the row's product and location and a unit enqueued under that key.
C5_Step ==
  /\ (pos' = pos + 1) =>
       LET row == df'[pos']
       IN /\ \A k \in AllKeys \ {Key(row)} : current_stock'[k] = current_stock[k]
          /\ \A i \in (Len(shelf_time_records) + 1)..Len(shelf_time_records') :
               /\ shelf_time_records'[i].product = row.PrimarySKU
               /\ shelf_time_records'[i].location = row.Location
               /\ shelf_time_records'[i].key = Key(row)
          /\ SubSeq(shelf_time_records', 1, Len(shelf_time_records)) = shelf_time_records
  /\ (opening' # opening) =>
       \A k \in AllKeys \ {ItemKey(opening'[i]) : i \in (Len(opening) + 1)..Len(opening')} :
         current_stock'[k] = current_stock[k]

C5_KeyIndependence == [][C5_Step]_vars

\* a unit was matched for one key while another key, with the same product
\* or the same location, holds stock
C5_Witness ==
  \E rec \in Records : \E k \in AllKeys :
    /\ k # rec.key
    /\ k[1] = rec.key[1] \/ k[2] = rec.key[2]
    /\ current_stock[k] # <<>>
    /\ current_stock[rec.key] # <<>>

RECURSIVE StableSort(_, _)
\* the rows of frame with DateTime up to t, by DateTime, ties in file order
StableSort(frame, t) ==
  IF t < 0 THEN <<>>
  ELSE StableSort(frame, t - 1) \o SelectSeq(frame, LAMBDA r : r.DateTime = t)

\* C6: the rows are applied in non-decreasing DateTime order with rows of
\* equal DateTime in file order, so that an inbound row followed in the file
\* by an outbound row of the same key and DateTime is applied first and the
\* outbound row matches its units.
C6_TieBreak ==
  /\ pc # "loaded" => IsSorted(df) /\ df = StableSort(raw, MaxTime)
  /\ (/\ pc = "done"
      /\ Len(raw) = 2
      /\ Key(raw[1]) = Key(raw[2])
      /\ raw[1].DateTime = raw[2].DateTime
      /\ raw[1].Qty = 1 /\ raw[2].Qty = -1)
       => Len(shelf_time_records) = 1 /\ warnings = <<>>

\* C7 as claimed: every record has purchase_date <= sale_date and a
\* shelf_time_days >= 0, also in runs seeded through add_opening_stock.
C7_NonNegative ==
  \A rec \in Records : rec.purchase_date <= rec.sale_date /\ rec.shelf_time_days >= 0

\* C7, amended: every record of a unit that a row of the frame brought in
\* has purchase_date <= sale_date and shelf_time_days >= 0.
C7_StreamNonNegative ==
  \A rec \in Records :
    rec.row > 0 => rec.purchase_date <= rec.sale_date /\ rec.shelf_time_days >= 0

\* a unit brought in by a row was matched a whole day or more later
C7_Witness == \E rec \in Records : rec.row > 0 /\ rec.shelf_time_days > 0

\* the timestamp of the inbound event that made the record's unit
LotDate(rec) == IF rec.row = 0 THEN opening[rec.lot].date ELSE df[rec.row].DateTime

LotDateDiff(rec) == df[rec.event].DateTime - LotDate(rec)

\* C8: a unit whose inbound timestamp is later than the outbound timestamp
\* is matched like any other (an outbound row that leaves units in the queue
\* was met in full), and its record carries the true purchase_date and
\* sale_date and a negative shelf_time_days.
C8_NegativeSurfaced ==
  /\ \A rec \in Records :
       /\ rec.purchase_date = LotDate(rec)
       /\ rec.sale_date = df[rec.event].DateTime
       /\ rec.purchase_date > rec.sale_date => rec.shelf_time_days < 0
  /\ (pos > 0 /\ df[pos].Qty < 0 /\ current_stock[Key(df[pos])] # <<>>)
       => Cardinality(RecordsOfEvent(pos)) = -df[pos].Qty

\* a unit dated after the outbound row was matched, and units were left
C8_Witness ==
  \E rec \in Records :
    /\ rec.purchase_date > rec.sale_date
    /\ rec.event = pos
    /\ current_stock[rec.key] # <<>>

\* the elapsed ticks in whole days, rounded toward zero
Truncated(ticks) ==
  IF ticks < 0 THEN -((-ticks) \div TicksPerDay) ELSE ticks \div TicksPerDay

\* C9 as claimed: shelf_time_days is the elapsed time in whole days
\* truncated toward zero.
C9_Truncated ==
  \A rec \in Records : rec.shelf_time_days = Truncated(rec.sale_date - rec.purchase_date)

\* C9, amended: shelf_time_days is the floor of the elapsed time in days:
\* the whole number d of days with d days <= elapsed < d + 1 days.
C9_Floored ==
  \A rec \in Records :
    /\ rec.shelf_time_days * TicksPerDay <= LotDateDiff(rec)
    /\ LotDateDiff(rec) < (rec.shelf_time_days + 1) * TicksPerDay

\* a purchase less than a day after the sale
C9_Witness ==
  \E rec \in Records :
    LotDateDiff(rec) < 0 /\ LotDateDiff(rec) > -TicksPerDay

IsOpeningUnit(u) == u.row = 0

\* C10: each opening stock item of quantity q put q units of reason
\* "Opening Stock" into its key's queue before any row was applied (the
\* _add_stock calls for opening stock all precede those for rows), and per
\* key the opening units are matched before any unit a row brought in.
C10_OpeningFirst ==
  /\ \A k \in AllKeys :
       /\ Cardinality({i \in 1..Len(current_stock[k]) : IsOpeningUnit(current_stock[k][i])})
            + Cardinality({i \in 1..Len(shelf_time_records) :
                 /\ shelf_time_records[i].key = k
                 /\ IsOpeningUnit(shelf_time_records[i])})
            = SumItems(opening, Len(opening), k)
       /\ \A i \in 1..Len(current_stock[k]) : \A j \in 1..Len(current_stock[k]) :
            (i < j /\ IsOpeningUnit(current_stock[k][j])) => IsOpeningUnit(current_stock[k][i])
       /\ \A i \in 1..Len(current_stock[k]) :
            IsOpeningUnit(current_stock[k][i]) =>
              /\ current_stock[k][i].reason = OpeningReason
              /\ current_stock[k][i].key = k
              /\ current_stock[k][i].date = opening[current_stock[k][i].lot].date
  /\ \A i \in 1..Len(shelf_time_records) : \A j \in 1..Len(shelf_time_records) :
       (/\ i < j
        /\ shelf_time_records[i].key = shelf_time_records[j].key
        /\ IsOpeningUnit(shelf_time_records[j])) => IsOpeningUnit(shelf_time_records[i])
  /\ \A rec \in Records :
       /\ IsOpeningUnit(rec) => rec.purchase_reason = OpeningReason
       /\ \A i \in 1..Len(current_stock[rec.key]) :
            IsOpeningUnit(current_stock[rec.key][i]) => IsOpeningUnit(rec)
  /\ \A k \in AllKeys : \A i \in 1..Len(current_stock[k]) :
       IsOpeningUnit(current_stock[k][i]) <=> current_stock[k][i].lot <= Len(opening)
  /\ \A rec \in Records : IsOpeningUnit(rec) <=> rec.lot <= Len(opening)

\* an opening unit was matched while a unit that a row brought in for the
\* same key waits behind another opening unit
C10_Witness ==
  \E rec \in Records :
    /\ IsOpeningUnit(rec)
    /\ Len(current_stock[rec.key]) >= 2
    /\ IsOpeningUnit(current_stock[rec.key][1])
    /\ ~IsOpeningUnit(current_stock[rec.key][2])

\* C11: applying a row of quantity 0 leaves every queue, the records and
\* the warnings unchanged.
C11_Step ==
  (pos' = pos + 1 /\ df'[pos'].Qty = 0) =>
    /\ current_stock' = current_stock
    /\ shelf_time_records' = shelf_time_records
    /\ warnings' = warnings

C11_ZeroNoOp == [][C11_Step]_vars

\* a row of quantity 0 was just applied to a key that holds stock, after a
\* record and a warning were emitted
C11_Witness ==
  /\ pos > 0
  /\ df[pos].Qty = 0
  /\ current_stock[Key(df[pos])] # <<>>
  /\ shelf_time_records # <<>>

Least(a, b) == IF a < b THEN a ELSE b

\* C12: an outbound row of magnitude q on a key holding a units appends
\* exactly min(q, a) records, each with the row's timestamp as sale_date and
\* the row's reason as sale_reason, and removes exactly the first min(q, a)
\* units of the key's queue.
C12_Step ==
  (pos' = pos + 1 /\ df'[pos'].Qty < 0) =>
    LET row == df'[pos']
        queue == current_stock[Key(row)]
        m == Least(-row.Qty, Len(queue))
    IN /\ Len(shelf_time_records') = Len(shelf_time_records) + m
       /\ SubSeq(shelf_time_records', 1, Len(shelf_time_records)) = shelf_time_records
       /\ \A i \in 1..m :
            LET rec == shelf_time_records'[Len(shelf_time_records) + i]
            IN /\ rec.sale_date = row.DateTime
               /\ rec.sale_reason = row.AdjReason
               /\ rec.event = pos'
               /\ rec.purchase_date = queue[i].date
               /\ rec.lot = queue[i].lot
       /\ current_stock'[Key(row)] = SubSeq(queue, m + 1, Len(queue))

C12_OneRecordPerUnit == [][C12_Step]_vars

\* +2 then -3 on one key: two records, one warning, an empty queue
C12_Witness ==
  /\ pos = 2
  /\ Key(df[1]) = Key(df[2])
  /\ df[1].Qty = 2 /\ df[2].Qty = -3
  /\ opening = <<>>
  /\ Len(shelf_time_records) = 2
  /\ Len(warnings) = 1
  /\ current_stock[Key(df[2])] = <<>>

\* the row that made lot l, for a lot made by the frame
LotRow(l) ==
  CHOOSE r \in 1..pos :
    /\ df[r].Qty > 0
    /\ Len(opening) + Cardinality({j \in 1..r : df[j].Qty > 0}) = l

\* the inbound event of lot l: its key, quantity, timestamp, cost of one
\* unit times the quantity, and reason
LotEvent(l) ==
  IF l <= Len(opening)
  THEN [key |-> ItemKey(opening[l]), qty |-> opening[l].qty,
        date |-> opening[l].date,
        cost |-> opening[l].cost_per_unit * opening[l].qty,
        reason |-> OpeningReason]
  ELSE [key |-> Key(df[LotRow(l)]), qty |-> df[LotRow(l)].Qty,
        date |-> df[LotRow(l)].DateTime,
        cost |-> df[LotRow(l)].Cost[1],
        reason |-> df[LotRow(l)].AdjReason]

\* the units of lot l that remain in its key's queue
LotRemaining(l) ==
  Cardinality({i \in 1..Len(current_stock[LotEvent(l).key]) :
                 current_stock[LotEvent(l).key][i].lot = l})

\* the records of lot l, and those of them emitted by event n
LotRecords(l) == {i \in 1..Len(shelf_time_records) : shelf_time_records[i].lot = l}
LotRecordsOfEvent(l, n) == {i \in LotRecords(l) : shelf_time_records[i].event = n}

\* C20: a lot of quantity n consumed by several outbound rows keeps
\* n minus the matched units; every record of the lot carries the
\* purchase_date, unit cost and reason of the lot's inbound event; and an
\* outbound row that is met in full emits as many records as its magnitude.
C20_PartialLotSplit ==
  /\ \A l \in 1..lots :
       /\ LotRemaining(l) = LotEvent(l).qty - Cardinality(LotRecords(l))
       /\ \A i \in LotRecords(l) :
            LET rec == shelf_time_records[i]
            IN /\ RecKey(rec) = LotEvent(l).key
               /\ rec.purchase_date = LotEvent(l).date
               /\ rec.unit_cost * LotEvent(l).qty = LotEvent(l).cost
               /\ rec.purchase_reason = LotEvent(l).reason
  /\ \A n \in 1..pos :
       (df[n].Qty < 0 /\ ~Oversold(n)) =>
         Cardinality(RecordsOfEvent(n)) = -df[n].Qty

\* a lot of three units was consumed by two outbound rows of one unit each
\* and one unit of it remains
C20_Witness ==
  \E l \in 1..lots :
    /\ LotEvent(l).qty = 3
    /\ LotRemaining(l) = 1
    /\ \E m, n \in 1..pos :
         /\ m # n
         /\ Cardinality(LotRecordsOfEvent(l, m)) = 1
         /\ Cardinality(LotRecordsOfEvent(l, n)) = 1

\* ---- the quantity-bearing lot ledger the unit queues are compared with ----

RECURSIVE DequeueUpTo(_, _, _)
\* dequeue_up_to on one key's lot queue: a head lot that fits within the
\* unsatisfied request is removed whole, otherwise it is split and stays at
\* the head; the lot queue left, the (lot, matched quantity) pairs and the
\* shortfall
DequeueUpTo(lotq, quantity, matched) ==
  IF quantity = 0 \/ lotq = <<>>
  THEN [queue |-> lotq, matched |-> matched, shortfall |-> quantity]
  ELSE IF Head(lotq).remaining <= quantity
       THEN DequeueUpTo(Tail(lotq), quantity - Head(lotq).remaining,
                        Append(matched, [lot |-> Head(lotq).lot,
                                         qty |-> Head(lotq).remaining]))
       ELSE [queue |-> <<[Head(lotq) EXCEPT !.remaining = @ - quantity]>> \o Tail(lotq),
             matched |-> Append(matched, [lot |-> Head(lotq).lot, qty |-> quantity]),
             shortfall |-> 0]

\* the lot ledger before any event
LedgerEmpty ==
  [ledger |-> [k \in AllKeys |-> <<>>], matches |-> <<>>, shortfalls |-> <<>>,
   lots |-> 0]

\* the lot ledger after an inbound event: one lot at the tail of its key
LedgerEnqueue(L, key, date, qty) ==
  [L EXCEPT !.ledger[key] = Append(@, [lot |-> L.lots + 1, date |-> date,
                                       remaining |-> qty]),
            !.lots = @ + 1]

\* the lot ledger after outbound event n of magnitude qty on key
LedgerDequeue(L, key, qty, n) ==
  LET d == DequeueUpTo(L.ledger[key], qty, <<>>)
  IN [L EXCEPT !.ledger[key] = d.queue,
               !.matches = @ \o [i \in 1..Len(d.matched) |->
                                   [event |-> n, lot |-> d.matched[i].lot,
                                    qty |-> d.matched[i].qty]],
               !.shortfalls = IF d.shortfall > 0
                              THEN Append(@, [event |-> n, shortfall |-> d.shortfall])
                              ELSE @]

RECURSIVE LedgerSeeded(_)
\* the lot ledger after the first n opening stock items
LedgerSeeded(n) ==
  IF n = 0 THEN LedgerEmpty
  ELSE LedgerEnqueue(LedgerSeeded(n - 1), ItemKey(opening[n]), opening[n].date,
                     opening[n].qty)

RECURSIVE LedgerAfter(_)
\* the lot ledger after the opening stock and the first n rows
LedgerAfter(n) ==
  IF n = 0 THEN LedgerSeeded(Len(opening))
  ELSE IF df[n].Qty > 0
       THEN LedgerEnqueue(LedgerAfter(n - 1), Key(df[n]), df[n].DateTime, df[n].Qty)
       ELSE IF df[n].Qty < 0
            THEN LedgerDequeue(LedgerAfter(n - 1), Key(df[n]), -df[n].Qty, n)
            ELSE LedgerAfter(n - 1)

RECURSIVE UnitRuns(_)
\* a unit queue grouped into consecutive runs of units of one lot
UnitRuns(queue) ==
  IF queue = <<>> THEN <<>>
  ELSE LET runs == UnitRuns(Tail(queue))
           u == Head(queue)
       IN IF runs # <<>> /\ runs[1].lot = u.lot /\ runs[1].date = u.date
          THEN <<[runs[1] EXCEPT !.remaining = @ + 1]>> \o Tail(runs)
          ELSE <<[lot |-> u.lot, date |-> u.date, remaining |-> 1]>> \o runs

RECURSIVE RecordRuns(_)
\* the records grouped into consecutive runs of one event and one lot
RecordRuns(records) ==
  IF records = <<>> THEN <<>>
  ELSE LET runs == RecordRuns(Tail(records))
           rec == Head(records)
       IN IF runs # <<>> /\ runs[1].lot = rec.lot /\ runs[1].event = rec.event
          THEN <<[runs[1] EXCEPT !.qty = @ + 1]>> \o Tail(runs)
          ELSE <<[event |-> rec.event, lot |-> rec.lot, qty |-> 1]>> \o runs

\* the deficit of each warning
WarnedShortfalls ==
  [i \in 1..Len(warnings) |->
     [event |-> warnings[i].event,
      shortfall |-> warnings[i].requested - warnings[i].matched]]

\* C19: after every event the unit queues, grouped into runs of one inbound
\* event, are the lot queues of the lot ledger (same order, timestamps and
\* remaining quantities); the records grouped by outbound event and lot are
\* the (lot, matched quantity) pairs of dequeue_up_to; and the warnings are
\* its shortfalls.
C19_LotRefinement ==
  LET L == LedgerAfter(pos)
  IN /\ \A k \in AllKeys : UnitRuns(current_stock[k]) = L.ledger[k]
     /\ RecordRuns(shelf_time_records) = L.matches
     /\ WarnedShortfalls = L.shortfalls
     /\ lots = L.lots

\* one outbound row consumed a whole lot and split the next one, which stays
\* at the head of its queue
C19_Witness ==
  LET L == LedgerAfter(pos)
  IN \E i, j \in 1..Len(L.matches) :
       /\ i < j
       /\ L.matches[i].event = L.matches[j].event
       /\ L.matches[i].lot # L.matches[j].lot
       /\ \E k \in AllKeys :
            /\ L.ledger[k] # <<>>
            /\ L.ledger[k][1].lot = L.matches[j].lot
            /\ Len(current_stock[k]) = L.ledger[k][1].remaining

\* every row of the frame has been applied once, in the frame's order: the
\* ledger, the records and the warnings are those of the lot ledger after
\* all the rows
AllApplied ==
  LET L == LedgerAfter(Len(df))
  IN /\ pos = Len(df)
     /\ Len(df) = Len(raw)
     /\ \A k \in AllKeys : UnitRuns(current_stock[k]) = L.ledger[k]
     /\ RecordRuns(shelf_time_records) = L.matches
     /\ WarnedShortfalls = L.shortfalls

\* C17: for every frame the loop of process_inventory_movements ends, with
\* every row applied exactly once and in order, whether or not a row fell
\* short on the way.
C17_RunToCompletion == <>(pc = "done" /\ AllApplied)

\* the run ended after a shortfall on one row and a match on a later row
C17_Witness ==
  /\ pc = "done"
  /\ \E i \in 1..Len(warnings) : \E j \in 1..Len(shelf_time_records) :
       warnings[i].event < shelf_time_records[j].event

\* the last step was a call of get_aging_summary_by_categories
AgingReturned == returned.call = "get_aging_summary_by_categories"

\* the places of the returned categories: a category and an index in it
AgingPlaces ==
  {<<c, j>> \in Categories \X (1..(MaxEvents * MaxQty)) : j <= Len(returned.value[c])}

\* the age in whole days of a unit bought at date, as of the instant now
AgeInDays(now, date) == (now - date) \div TicksPerDay

\* C13: get_aging_summary_by_categories places every remaining unit in
\* exactly one of the four categories, and the sizes of the four categories
\* sum to the number of units in stock over all keys.
C13_BucketTotality ==
  AgingReturned =>
    /\ DOMAIN returned.value = Categories
    /\ \A k \in AllKeys : \A i \in 1..Len(current_stock[k]) :
         Cardinality({p \in AgingPlaces :
                        LET info == returned.value[p[1]][p[2]]
                        IN /\ <<info.product, info.location>> = k
                           /\ info.index = i
                           /\ info.lot = current_stock[k][i].lot
                           /\ info.purchase_date = current_stock[k][i].date}) = 1
    /\ Cardinality(AgingPlaces) =
         Cardinality({<<k, i>> \in AllKeys \X (1..(MaxEvents * MaxQty)) :
                        i <= Len(current_stock[k])})

\* units of one ledger fall on either side of the limit of the first category
C13_Witness ==
  /\ AgingReturned
  /\ \E p, q \in AgingPlaces :
       /\ p[1] = Fresh /\ returned.value[p[1]][p[2]].days_on_shelf = FreshDays
       /\ q[1] = Medium /\ returned.value[q[1]][q[2]].days_on_shelf = FreshDays + 1

\* C14 as claimed: a unit is in the first category only if its age in whole
\* days lies in [0, 7], in the second only if in [8, 30], in the third only
\* if in [31, 90], in the last only if above 90, units dated after the
\* as-of instant included.
C14_Boundaries ==
  AgingReturned =>
    \A p \in AgingPlaces :
      LET info == returned.value[p[1]][p[2]]
          age == AgeInDays(returned.now, info.purchase_date)
      IN /\ p[1] = Fresh => 0 <= age /\ age <= 7
         /\ p[1] = Medium => 8 <= age /\ age <= 30
         /\ p[1] = Aged => 31 <= age /\ age <= 90
         /\ p[1] = VeryAged => age > 90

\* C14 as the code has it: the first category has no lower limit, a unit is
\* in it only if its age is at most 7, and a unit dated after the as-of
\* instant, whose age is negative, is in it; the other three categories are
\* as claimed.
C14_UpperLimits ==
  AgingReturned =>
    \A p \in AgingPlaces :
      LET info == returned.value[p[1]][p[2]]
          age == AgeInDays(returned.now, info.purchase_date)
      IN /\ info.days_on_shelf = age
         /\ p[1] = Fresh => age <= 7
         /\ age < 0 => p[1] = Fresh
         /\ p[1] = Medium => 8 <= age /\ age <= 30
         /\ p[1] = Aged => 31 <= age /\ age <= 90
         /\ p[1] = VeryAged => age > 90

\* a unit dated after the as-of instant is in the first category
C14_Witness ==
  /\ AgingReturned
  /\ \E p \in AgingPlaces :
       /\ p[1] = Fresh
       /\ returned.value[p[1]][p[2]].purchase_date > returned.now
       /\ returned.value[p[1]][p[2]].days_on_shelf < 0

\* the last step was a call of get_current_stock_summary
SummaryReturned == returned.call = "get_current_stock_summary"

\* the rows of the returned summary that are for key k
SummaryRowsOf(k) ==
  {n \in 1..Len(returned.value) :
     <<returned.value[n].product, returned.value[n].location>> = k}

\* C16: get_current_stock_summary returns exactly one row for each key whose
\* queue is not empty and none for a key whose queue is empty; the row's
\* current_qty is the number of units the key holds, and its oldest and
\* newest stock dates are the least and the greatest inbound timestamp among
\* those units.
C16_StockSummary ==
  SummaryReturned =>
    \A k \in AllKeys :
      IF current_stock[k] = <<>>
      THEN SummaryRowsOf(k) = {}
      ELSE /\ Cardinality(SummaryRowsOf(k)) = 1
           /\ \A n \in SummaryRowsOf(k) :
                LET summary == returned.value[n]
                    dates == {current_stock[k][i].date : i \in 1..Len(current_stock[k])}
                IN /\ summary.current_qty = Len(current_stock[k])
                   /\ summary.oldest_stock_date \in dates
                   /\ summary.newest_stock_date \in dates
                   /\ \A d \in dates : /\ summary.oldest_stock_date <= d
                                        /\ d <= summary.newest_stock_date

\* the summary of a ledger in which one key holds units of two dates and
\* another key was only ever the target of an outbound row
C16_Witness ==
  /\ SummaryReturned
  /\ \E n \in 1..Len(returned.value) :
       /\ returned.value[n].current_qty = 2
       /\ returned.value[n].oldest_stock_date < returned.value[n].newest_stock_date
  /\ \E i \in 1..pos :
       /\ df[i].Qty < 0
       /\ Oversold(i)
       /\ SummaryRowsOf(Key(df[i])) = {}

\* the last step was a call of generate_analytics
AnalyticsReturned == returned.call = "generate_analytics"

\* C18: when no record has been emitted, generate_analytics returns a
\* well-formed result: the six overall statistics are 0 and the per-product,
\* per-location, fast-mover, slow-mover and monthly collections are empty,
\* as is the frame of records returned beside them.
C18_EmptyAnalytics ==
  (AnalyticsReturned /\ shelf_time_records = <<>>) =>
    returned.value =
      [analytics |->
         [overall |-> [total_units_sold |-> 0, average_shelf_time_days |-> 0,
                       median_shelf_time_days |-> 0, min_shelf_time_days |-> 0,
                       max_shelf_time_days |-> 0, std_shelf_time_days |-> 0],
          by_product |-> <<>>, by_location |-> <<>>,
          fast_moving_products |-> <<>>, slow_moving_products |-> <<>>,
          monthly_trends |-> <<>>],
       shelf_df |-> <<>>]

\* generate_analytics was called with no record, after an inbound row and
\* after an outbound row on an empty queue
C18_Witness ==
  /\ AnalyticsReturned
  /\ shelf_time_records = <<>>
  /\ warnings # <<>>
  /\ \E k \in AllKeys : current_stock[k] # <<>>

\* the four reporting methods
Queries ==
  {"get_current_stock_summary", "get_aging_summary_by_categories",
   "get_detailed_shelf_aging_report", "generate_analytics"}

\* C15: a call of get_current_stock_summary, get_aging_summary_by_categories,
\* get_detailed_shelf_aging_report or generate_analytics, in any state and
\* after any other call, leaves every queue, the records and the rest of the
\* analyzer's state as they were, so that the rows applied later find the
\* ledger they would have found without the call.
C15_Step ==
  returned'.call \in Queries =>
    /\ current_stock' = current_stock
    /\ shelf_time_records' = shelf_time_records
    /\ state' = state

C15_ReadOnly == [][C15_Step]_vars

\* a report was taken while the loop was under way, with units in stock and
\* records emitted
C15_Witness ==
  /\ returned.call \in Queries
  /\ pc = "processing"
  /\ shelf_time_records # <<>>
  /\ \E k \in AllKeys : current_stock[k] # <<>>

\* after is before with units added at the tail
AppendedAtTail(before, after) ==
  /\ Len(before) <= Len(after)
  /\ SubSeq(after, 1, Len(before)) = before

\* after is before with units taken from the head
RemovedFromHead(before, after) ==
  /\ Len(after) <= Len(before)
  /\ SubSeq(before, Len(before) - Len(after) + 1, Len(before)) = after

\* C21: every step changes a key's queue only by appending units at the
\* tail or by removing units from the head; the units that remain keep their
\* order, and none is taken from the middle or the tail.
C21_Step ==
  \A k \in AllKeys :
    \/ AppendedAtTail(current_stock[k], current_stock'[k])
    \/ RemovedFromHead(current_stock[k], current_stock'[k])

C21_QueueDiscipline == [][C21_Step]_vars

\* a queue that was appended to twice and then lost its head: the unit left
\* at the head is of the first lot and a unit of the second lot is behind it
C21_Witness ==
  \E k \in AllKeys :
    /\ Len(current_stock[k]) >= 2
    /\ current_stock[k][1].lot < current_stock[k][Len(current_stock[k])].lot
    /\ \E i \in 1..Len(shelf_time_records) :
         /\ shelf_time_records[i].key = k
         /\ shelf_time_records[i].lot = current_stock[k][1].lot

\* the queue is in non-decreasing order of inbound timestamp, head to tail
DateOrdered(queue) ==
  \A i, j \in 1..Len(queue) : i < j => queue[i].date <= queue[j].date

\* the oldest_stock_date get_current_stock_summary reports for key k
OldestStockDate(k) == SummaryRow(k, current_stock[k], 0).oldest_stock_date

\* C23 as claimed: in every reachable state, states after add_opening_stock
\* included, each queue is in non-decreasing order of inbound timestamp, and
\* the unit at the head carries the oldest_stock_date of the summary.
C23_HeadOldest ==
  \A k \in AllKeys :
    /\ DateOrdered(current_stock[k])
    /\ current_stock[k] # <<>> => current_stock[k][1].date = OldestStockDate(k)

\* C23 as the code has it: the units brought in by rows of the frame stand
\* in non-decreasing order of inbound timestamp, and the head of a queue
\* that holds no opening stock carries the oldest_stock_date of the summary;
\* opening stock stands in the order of the calls, whatever its dates.
C23_StreamHeadOldest ==
  \A k \in AllKeys :
    /\ DateOrdered(SelectSeq(current_stock[k], LAMBDA u : ~IsOpeningUnit(u)))
    /\ (current_stock[k] # <<>> /\ \A i \in 1..Len(current_stock[k]) :
                                     ~IsOpeningUnit(current_stock[k][i]))
         => /\ DateOrdered(current_stock[k])
            /\ current_stock[k][1].date = OldestStockDate(k)

\* a queue of units of two rows of different dates, after its first head was
\* matched
C23_Witness ==
  \E k \in AllKeys :
    /\ Len(current_stock[k]) >= 2
    /\ \A i \in 1..Len(current_stock[k]) : ~IsOpeningUnit(current_stock[k][i])
    /\ current_stock[k][1].date < current_stock[k][Len(current_stock[k])].date
    /\ \E i \in 1..Len(shelf_time_records) : shelf_time_records[i].key = k

\* ---- a second run over the same events with other costs ----

\* the Cost cells and the cost_per_unit entries the second run may carry:
\* missing, or another amount of either sign
OtherCosts == {NaN, <<-24>>}
OtherCostsPerUnit == {0, 8}

\* the analyzer after __init__ and add_opening_stock(items)
RunSeeded(items) ==
  [current_stock |-> SeedAll([k \in AllKeys |-> <<>>], items, 0),
   shelf_time_records |-> <<>>, warnings |-> <<>>, lots |-> Len(items)]

\* the analyzer run after one more iteration of the loop, on row n of frame
RunRow(run, row, n) ==
  IF row.Qty > 0
  THEN [run EXCEPT !.current_stock =
                      AddStock(@, row.PrimarySKU, row.Location, row.DateTime,
                               row.Qty, RowCost(row), row.AdjReason,
                               run.lots + 1, n),
                   !.lots = @ + 1]
  ELSE IF row.Qty < 0
       THEN LET key == StockKey(row.PrimarySKU, row.Location)
                end == WhileLoop(run.current_stock[key], run.shelf_time_records, 0,
                                 abs(row.Qty), row.PrimarySKU, row.Location,
                                 row.DateTime, row.AdjReason, n)
            IN [run EXCEPT !.current_stock[key] = end.queue,
                           !.shelf_time_records = end.records,
                           !.warnings =
                              IF Shortfall(end.removed_qty, abs(row.Qty))
                              THEN Append(@, [product |-> row.PrimarySKU,
                                              location |-> row.Location,
                                              requested |-> abs(row.Qty),
                                              matched |-> end.removed_qty,
                                              event |-> n])
                              ELSE @]
       ELSE run

RECURSIVE RunAfter(_, _, _)
\* the analyzer after add_opening_stock(items) and the first n rows of frame
RunAfter(items, frame, n) ==
  IF n = 0 THEN RunSeeded(items)
  ELSE RunRow(RunAfter(items, frame, n - 1), frame[n], n)

\* what of a run must not depend on costs: the timestamps of the units of
\* each queue, the records without their cost, and the warnings
CostBlind(stock, records, warned) ==
  [dates |-> [k \in AllKeys |-> Column(stock[k], "date")],
   records |-> [i \in 1..Len(records) |->
                  [product |-> records[i].product, location |-> records[i].location,
                   purchase_date |-> records[i].purchase_date,
                   sale_date |-> records[i].sale_date,
                   shelf_time_days |-> records[i].shelf_time_days]],
   warnings |-> [i \in 1..Len(warned) |->
                   [product |-> warned[i].product, location |-> warned[i].location,
                    requested |-> warned[i].requested, matched |-> warned[i].matched]]]

\* the events so far with the costs c (for the rows) and p (for the opening
\* stock) in place of their own
OtherFrame(c) == [i \in 1..pos |-> [df[i] EXCEPT !.Cost = c[i]]]
OtherOpening(p) == [i \in 1..Len(opening) |-> [opening[i] EXCEPT !.cost_per_unit = p[i]]]

\* C22: after every event, a run over the same events with other costs,
\* missing costs included, has queues of the same lengths and unit
\* timestamps, records that agree on product, location, purchase_date,
\* sale_date and shelf_time_days, and the same warnings.
C22_CostBlindMatching ==
  \A c \in [1..pos -> OtherCosts] : \A p \in [1..Len(opening) -> OtherCostsPerUnit] :
    LET other == RunAfter(OtherOpening(p), OtherFrame(c), pos)
    IN CostBlind(other.current_stock, other.shelf_time_records, other.warnings)
         = CostBlind(current_stock, shelf_time_records, warnings)

\* a run in which a costed lot was matched in part and an outbound row fell
\* short, whose twin without any cost carries units and records of cost 0
C22_Witness ==
  /\ pos >= 2
  /\ warnings # <<>>
  /\ \E i \in 1..Len(shelf_time_records) : shelf_time_records[i].unit_cost > 0
  /\ LET other == RunAfter(OtherOpening([i \in 1..Len(opening) |-> 0]),
                           OtherFrame([i \in 1..pos |-> NaN]), pos)
     IN /\ other.shelf_time_records # <<>>
        /\ \A i \in 1..Len(other.shelf_time_records) :
             other.shelf_time_records[i].unit_cost = 0
        /\ other.warnings # <<>>

====
